---- MODULE Spec2Model ----
(***************************************************************************)
(* A model of src/app.py: the session-scoped lexical retrieval of the      *)
(* UMAER backend (tokenize, chunk_text, build_index_for_session,           *)
(* score_chunk, search_best_chunks) and the /api/chat handler that calls   *)
(* it and persists the chat history.                                       *)
(*                                                                         *)
(* A Python str is a sequence of one-character strings; offsets are        *)
(* 0-based as in the source, so text[a:b] is SubSeq(text, a + 1, b).       *)
(* A float score len(..)/max(1, len(..)) is the pair <<num, den>>,         *)
(* compared by cross-multiplication.                                       *)
(***************************************************************************)
EXTENDS Integers, Sequences, FiniteSets

VARIABLES
    \* chunk_text, one loop iteration per step
    text, size, overlap, stripped, start, end, chunks, cpc,
    \* search_best_chunks, one call per step
    session_dir, query, k, result, spc,
    \* the /api/chat handler, one file-system access per step
    use_openai, store, pc, message, upload, history, rag, reply, status,
    docs_at_search

chunk_vars  == <<text, size, overlap, stripped, start, end, chunks, cpc>>
search_vars == <<query, k, result, spc>>
chat_vars   == <<use_openai, store, pc, message, upload, history, rag, reply,
                 status, docs_at_search>>
vars == <<chunk_vars, session_dir, search_vars, chat_vars>>

----------------------------------------------------------------------------
(* Bounds of the model *)

MaxChunkTextLen == 4
MaxSize == 2
MaxOverlap == 3
MaxFiles == 2
MaxQueryLen == 3
MaxK == 2
NumRequests == 2

(* Constants of the program *)

DefaultSize == 900
DefaultOverlap == 150
Lookahead == 200
ChatK == 4

----------------------------------------------------------------------------
(* Characters and strings *)

Min(a, b) == IF a < b THEN a ELSE b
Max(a, b) == IF a > b THEN a ELSE b

SeqsUpTo(S, n) == UNION {[1..m -> S] : m \in 0..n}

\* the characters _WORD matches, of the characters the model draws from
WordChars == {"a", "b", "A", "B"}

\* a variant of the character class that also admits the period
IsWordOrPeriod(c) == c \in WordChars \cup {"."}

\* _WORD's character class
IsWord(c) == c \in WordChars

IsSpace(c) == c \in {" ", "\n"}

\* str.lower() on one character
Lower(c) == CASE c = "A" -> "a" [] c = "B" -> "b" [] OTHER -> c

RECURSIVE lstrip(_)
lstrip(s) == IF s # <<>> /\ IsSpace(Head(s)) THEN lstrip(Tail(s)) ELSE s

RECURSIVE rstrip(_)
rstrip(s) ==
    IF s # <<>> /\ IsSpace(s[Len(s)]) THEN rstrip(SubSeq(s, 1, Len(s) - 1)) ELSE s

\* str.strip()
strip(s) == rstrip(lstrip(s))

\* text[a:b] for 0 <= a
Slice(s, a, b) == SubSeq(s, a + 1, Min(b, Len(s)))

\* text.find(c, lo, hi) for 0 <= lo
find(s, c, lo, hi) ==
    LET ps == {p \in lo..(Min(hi, Len(s)) - 1) : s[p + 1] = c}
    IN  IF ps = {} THEN -1 ELSE CHOOSE p \in ps : \A q \in ps : p <= q

\* _WORD.findall(s): the maximal runs of word characters, left to right
RECURSIVE findall_word(_, _, _)
findall_word(s, cur, acc) ==
    IF s = <<>>
    THEN IF cur = <<>> THEN acc ELSE Append(acc, cur)
    ELSE IF IsWord(Head(s))
         THEN findall_word(Tail(s), Append(cur, Head(s)), acc)
         ELSE findall_word(Tail(s), <<>>, IF cur = <<>> THEN acc ELSE Append(acc, cur))

tokenize(s) ==
    LET ws == findall_word(s, <<>>, <<>>)
    IN  [i \in 1..Len(ws) |-> [j \in 1..Len(ws[i]) |-> Lower(ws[i][j])]]

Range(s) == {s[i] : i \in 1..Len(s)}

----------------------------------------------------------------------------
(* chunk_text *)

\* a variant of the loop body that cuts the chunk before the period it snaps to
ChunkStepDropsPeriod(t, st, sz, ov) ==
    LET n    == Len(t)
        end0 == Min(n, st + sz)
        p    == IF end0 < n THEN find(t, ".", end0, Min(n, end0 + Lookahead)) ELSE -1
        e    == IF p # -1 THEN p + 1 ELSE end0
        c    == IF p # -1 THEN Slice(t, st, p) ELSE Slice(t, st, end0)
    IN  [chunk |-> strip(c), end |-> e, next |-> Max(e - ov, e)]

\* one iteration of the while loop: the chunk appended, the window's end and
\* the next window's start
ChunkStep(t, st, sz, ov) ==
    LET n    == Len(t)
        end0 == Min(n, st + sz)
        p    == IF end0 < n THEN find(t, ".", end0, Min(n, end0 + Lookahead)) ELSE -1
        e    == IF p # -1 THEN p + 1 ELSE end0
        c    == IF p # -1 THEN Slice(t, st, p + 1) ELSE Slice(t, st, end0)
    IN  [chunk |-> strip(c), end |-> e, next |-> Max(e - ov, e)]

RECURSIVE ChunkLoop(_, _, _, _, _)
ChunkLoop(t, st, sz, ov, acc) ==
    IF st < Len(t)
    THEN LET s == ChunkStep(t, st, sz, ov)
         IN  ChunkLoop(t, s.next, sz, ov, Append(acc, s.chunk))
    ELSE acc

\* the function as a whole, for the callers that use its result
chunk_text(t, sz, ov) ==
    LET s == strip(t)
    IN  IF s = <<>> THEN <<>> ELSE ChunkLoop(s, 0, sz, ov, <<>>)

ChunkChars == {"a", " ", "."}

\* the loop is cut off once it has run longer than any terminating run can
IterCap == MaxChunkTextLen + 2

ChunkIdle ==
    /\ text = <<>> /\ size = 0 /\ overlap = 0 /\ stripped = <<>>
    /\ start = 0 /\ end = 0 /\ chunks = <<>> /\ cpc = "off"

SearchIdle ==
    /\ query = <<>> /\ k = 0 /\ result = <<>> /\ spc = "off"

ChatIdle ==
    /\ use_openai = FALSE /\ store = "absent"
    /\ pc = <<>> /\ message = <<>> /\ upload = <<>> /\ history = <<>>
    /\ rag = <<>> /\ reply = <<>> /\ status = <<>> /\ docs_at_search = <<>>

InitChunk ==
    /\ text \in SeqsUpTo(ChunkChars, MaxChunkTextLen)
    /\ size \in 0..MaxSize
    /\ overlap \in 0..MaxOverlap
    /\ stripped = <<>> /\ start = 0 /\ end = 0 /\ chunks = <<>>
    /\ cpc = "entry"
    /\ session_dir = <<>>
    /\ SearchIdle /\ ChatIdle

\* lines 81-86: strip, the early return on an empty text, the loop's variables
ChunkEnter ==
    /\ cpc = "entry"
    /\ stripped' = strip(text)
    /\ cpc' = IF strip(text) = <<>> THEN "done" ELSE "loop"
    /\ UNCHANGED <<text, size, overlap, start, end, chunks>>
    /\ UNCHANGED <<session_dir, search_vars, chat_vars>>

\* lines 87-97: one iteration
ChunkIterate ==
    /\ cpc = "loop"
    /\ start < Len(stripped)
    /\ Len(chunks) < IterCap
    /\ LET s == ChunkStep(stripped, start, size, overlap)
       IN  /\ chunks' = Append(chunks, s.chunk)
           /\ end' = s.end
           /\ start' = s.next
    /\ UNCHANGED <<text, size, overlap, stripped, cpc>>
    /\ UNCHANGED <<session_dir, search_vars, chat_vars>>

\* lines 87, 98: the loop condition fails, the chunks are returned
ChunkReturn ==
    /\ cpc = "loop"
    /\ ~(start < Len(stripped))
    /\ cpc' = "done"
    /\ UNCHANGED <<text, size, overlap, stripped, start, end, chunks>>
    /\ UNCHANGED <<session_dir, search_vars, chat_vars>>

NextChunk == ChunkEnter \/ ChunkIterate \/ ChunkReturn

SpecChunk == InitChunk /\ [][NextChunk]_vars

----------------------------------------------------------------------------
(* Claims about chunk_text, under SpecChunk *)

RECURSIVE ConcatAll(_)
ConcatAll(ss) == IF ss = <<>> THEN <<>> ELSE Head(ss) \o ConcatAll(Tail(ss))

NotSpace(c) == ~IsSpace(c)

RemoveWS(s) == SelectSeq(s, NotSpace)

\* C2: for every text and every (target_size, overlap) the loop ends after at
\* most len(text) iterations. Every iteration appends one chunk, so the
\* number of iterations run so far is Len(chunks).
C2_TerminatesWithinLen == Len(chunks) <= Len(text)

\* C2, for a window of at least one character: the same bound, and a loop
\* that is not cut off by IterCap.
ChunkProgressPositiveSize ==
    size >= 1 => /\ Len(chunks) <= Len(text)
                 /\ (cpc = "loop" => start <= Len(stripped))

\* C4 as stated: the chunks, concatenated, are the input text, whitespace
\* included (no chunk shares a region with the previous one: see C4_Coverage).
C4_ConcatIsText == cpc = "done" => ConcatAll(chunks) = text

\* C4 as amended: whenever chunk_text returns, the chunks are consecutive
\* windows that never overlap (the next window starts where the previous one
\* ended), and their concatenation is the input text less some whitespace:
\* every character that is not whitespace is there once, in order.
C4_Coverage ==
    /\ cpc \in {"loop", "done"} => start = end
    /\ cpc = "done" =>
         /\ RemoveWS(ConcatAll(chunks)) = RemoveWS(text)
         /\ Len(ConcatAll(chunks)) <= Len(text)

\* a returned segmentation of several chunks that lost whitespace inside the text
C4_Witness ==
    /\ cpc = "done"
    /\ Len(chunks) >= 2
    /\ ConcatAll(chunks) # strip(text)
    /\ \E i \in 1..Len(chunks) : "." \in Range(chunks[i])

----------------------------------------------------------------------------
(* build_index_for_session, score_chunk, search_best_chunks *)

\* A session directory is a function from the names of its files to the text
\* extract_text_from_pdf returns for each. save_file admits PDFs only, so
\* every file is one; a name is a number, ordered as sorted() orders paths.

RECURSIVE SortedNames(_)
SortedNames(S) ==
    IF S = {} THEN <<>>
    ELSE LET m == CHOOSE x \in S : \A y \in S : x <= y
         IN  <<m>> \o SortedNames(S \ {m})

NonEmpty(ch) == ch # <<>>

RECURSIVE IndexFrom(_, _)
IndexFrom(dir, names) ==
    IF names = <<>> THEN <<>>
    ELSE LET p   == Head(names)
             chs == SelectSeq(chunk_text(dir[p], DefaultSize, DefaultOverlap), NonEmpty)
         IN  [i \in 1..Len(chs) |-> <<p, chs[i]>>] \o IndexFrom(dir, Tail(names))

\* the list of (filename, chunk) of the session
build_index_for_session(dir) == IndexFrom(dir, SortedNames(DOMAIN dir))

\* scores are fractions <<num, den>> with den > 0
ScoreEQ(a, b) == a[1] * b[2] = b[1] * a[2]
ScoreGT(a, b) == a[1] * b[2] > b[1] * a[2]

\* a variant that counts every occurrence of a query term in the chunk
score_chunk_occurrences(query_terms, chunk) ==
    LET toks == tokenize(chunk)
    IN  IF Range(toks) = {} THEN <<0, 1>>
        ELSE <<Cardinality({i \in 1..Len(toks) : toks[i] \in query_terms}),
               Max(1, Cardinality(query_terms))>>

score_chunk(query_terms, chunk) ==
    LET terms == Range(tokenize(chunk))
    IN  IF terms = {} THEN <<0, 1>>
        ELSE <<Cardinality(query_terms \cap terms), Max(1, Cardinality(query_terms))>>

\* a variant of the filter that keeps the units that scored 0
IsCandidateOrZero(s) == s[1] >= 0

\* line 130: if s > 0
IsCandidate(s) == s[1] > 0

\* lines 127-131: the scored units, in corpus order
RECURSIVE ScoredFrom(_, _)
ScoredFrom(idx, q_terms) ==
    IF idx = <<>> THEN <<>>
    ELSE LET s    == score_chunk(q_terms, Head(idx)[2])
             rest == ScoredFrom(Tail(idx), q_terms)
         IN  IF IsCandidate(s) THEN <<<<s, Head(idx)[1], Head(idx)[2]>>>> \o rest
             ELSE rest

\* x goes after every element whose score is at least its own
RECURSIVE InsertByScoreDesc(_, _)
InsertByScoreDesc(sorted, x) ==
    IF sorted = <<>> THEN <<x>>
    ELSE IF ScoreGT(x[1], Head(sorted)[1])
         THEN <<x>> \o sorted
         ELSE <<Head(sorted)>> \o InsertByScoreDesc(Tail(sorted), x)

\* x goes before every element whose score is at least its own
RECURSIVE InsertByScoreAsc(_, _)
InsertByScoreAsc(sorted, x) ==
    IF sorted = <<>> THEN <<x>>
    ELSE IF ScoreGT(Head(sorted)[1], x[1])
         THEN <<x>> \o sorted
         ELSE <<Head(sorted)>> \o InsertByScoreAsc(Tail(sorted), x)

RECURSIVE SortAscFrom(_, _)
SortAscFrom(sorted, rest) ==
    IF rest = <<>> THEN sorted
    ELSE SortAscFrom(InsertByScoreAsc(sorted, Head(rest)), Tail(rest))

\* a variant that sorts ascending and reverses: units of equal score come out
\* in reverse corpus order
sort_ascending_reversed(scored) ==
    LET asc == SortAscFrom(<<>>, scored)
    IN  [i \in 1..Len(asc) |-> asc[Len(asc) + 1 - i]]

RECURSIVE SortDescFrom(_, _)
SortDescFrom(sorted, rest) ==
    IF rest = <<>> THEN sorted
    ELSE SortDescFrom(InsertByScoreDesc(sorted, Head(rest)), Tail(rest))

\* line 132: scored.sort(key=lambda t: t[0], reverse=True), a stable sort
sort_by_score_reverse(scored) == SortDescFrom(<<>>, scored)

\* line 133: scored[:k], a Python slice: a negative k counts from the end
PySlicePrefix(s, n) ==
    IF n >= 0 THEN SubSeq(s, 1, Min(n, Len(s)))
    ELSE SubSeq(s, 1, Max(0, Len(s) + n))

search_best_chunks(dir, q, kk) ==
    LET idx     == build_index_for_session(dir)
        q_terms == Range(tokenize(q))
    IN  IF idx = <<>> THEN <<>>
        ELSE IF q_terms = {} THEN <<>>
        ELSE PySlicePrefix(sort_by_score_reverse(ScoredFrom(idx, q_terms)), kk)

\* the extracted texts the model's files hold
DocSamples ==
    { <<>>,
      <<".">>,
      <<"a", " ", "a", ".">>,
      <<" ", "B", " ", "a">> }

Dirs == UNION {[D -> DocSamples] : D \in SUBSET (1..MaxFiles)}

QueryChars == {"a", "B", " ", "."}

InitSearch ==
    /\ session_dir \in Dirs
    /\ query \in SeqsUpTo(QueryChars, MaxQueryLen)
    /\ k \in -1..MaxK
    /\ result = <<>>
    /\ spc = "call"
    /\ ChunkIdle /\ ChatIdle

\* lines 120-133, one call
SearchCall ==
    /\ spc = "call"
    /\ result' = search_best_chunks(session_dir, query, k)
    /\ spc' = "returned"
    /\ UNCHANGED <<session_dir, query, k, chunk_vars, chat_vars>>

NextSearch == SearchCall

SpecSearch == InitSearch /\ [][NextSearch]_vars

----------------------------------------------------------------------------
(* Claims about search_best_chunks, under SpecSearch *)

\* the units that scored above 0, in corpus order, as the call builds them
ScoredUnits ==
    ScoredFrom(build_index_for_session(session_dir), Range(tokenize(query)))

\* L ordered by a strict total order on its positions: element i goes to the
\* place after the elements that come before it
Ranked(L, Before(_, _, _)) ==
    LET pos(i) == 1 + Cardinality({j \in 1..Len(L) : j # i /\ Before(L, j, i)})
    IN  [p \in 1..Len(L) |-> L[CHOOSE i \in 1..Len(L) : pos(i) = p]]

\* score descending, then corpus order
BeforeByScoreThenOrder(L, j, i) ==
    \/ ScoreGT(L[j][1], L[i][1])
    \/ ScoreEQ(L[j][1], L[i][1]) /\ j < i

\* score descending, then unit text length descending, then corpus order
BeforeByScoreLengthOrder(L, j, i) ==
    \/ ScoreGT(L[j][1], L[i][1])
    \/ /\ ScoreEQ(L[j][1], L[i][1])
       /\ \/ Len(L[j][3]) > Len(L[i][3])
          \/ Len(L[j][3]) = Len(L[i][3]) /\ j < i

FirstK(L, n) == SubSeq(L, 1, Min(n, Len(L)))

C3_NoZeroScore ==
    spc = "returned" =>
        \A i \in 1..Len(result) :
            /\ result[i][1][1] # 0
            /\ \E a \in 1..Len(tokenize(result[i][3])), b \in 1..Len(tokenize(query)) :
                 tokenize(result[i][3])[a] = tokenize(query)[b]

\* a result with room left (fewer than k entries) although the corpus holds a
\* further unit, which shares no term with the query
C3_Witness ==
    /\ spc = "returned"
    /\ result # <<>>
    /\ Len(result) < k
    /\ Len(build_index_for_session(session_dir)) > Len(result)

\* C5: a call with k <= 0 returns the empty list.
C5_NonPositiveKIsEmpty == (spc = "returned" /\ k <= 0) => result = <<>>

\* the number of distinct terms of Q among the tokens of a chunk
MatchedTerms(Q, toks) == Cardinality({t \in Q : \E i \in 1..Len(toks) : toks[i] = t})

\* C6: for a non-empty set Q of query terms, the score of every unit is the
\* number of distinct terms of Q among the unit's terms over max(1, |Q|), a
\* value from 0 to 1; the entries of the result carry that score.
C6_OverlapScore ==
    LET Q   == Range(tokenize(query))
        idx == build_index_for_session(session_dir)
    IN  Q # {} =>
          /\ \A u \in 1..Len(idx) :
               LET sc == score_chunk(Q, idx[u][2])
               IN  /\ ScoreEQ(sc, <<MatchedTerms(Q, tokenize(idx[u][2])),
                                    Max(1, Cardinality(Q))>>)
                   /\ 0 <= sc[1] /\ sc[1] <= sc[2]
          /\ \A i \in 1..Len(result) :
               ScoreEQ(result[i][1], <<MatchedTerms(Q, tokenize(result[i][3])),
                                       Max(1, Cardinality(Q))>>)

\* a result with an entry of score 1/2 whose unit repeats the matched term
C6_Witness ==
    /\ spc = "returned"
    /\ \E i \in 1..Len(result) :
         /\ ScoreEQ(result[i][1], <<1, 2>>)
         /\ Len(tokenize(result[i][3])) > Cardinality(Range(tokenize(result[i][3])))

\* the query holds no letter and no digit, so it has no term
NoTermIn(q) == \A i \in 1..Len(q) : q[i] \notin {"a", "b", "A", "B"}

\* no file of the session yields a unit: each text is empty or whitespace
NoUnitIn(dir) == \A p \in DOMAIN dir : \A i \in 1..Len(dir[p]) : dir[p][i] \in {" ", "\n"}

\* C7: the call returns the empty list when the query has no term or the
\* corpus has no unit.
C7_EmptyQueryOrCorpus ==
    (spc = "returned" /\ (NoTermIn(query) \/ NoUnitIn(session_dir))) => result = <<>>

\* both cases were called: a query of whitespace and punctuation against a
\* corpus with units, and a query with terms against a session whose only
\* file has no text
C7_Witness ==
    /\ spc = "returned"
    /\ \/ /\ NoTermIn(query) /\ query # <<>>
          /\ build_index_for_session(session_dir) # <<>>
       \/ /\ ~NoTermIn(query)
          /\ DOMAIN session_dir # {} /\ NoUnitIn(session_dir)

----------------------------------------------------------------------------
(* The /api/chat handler on one session *)

\* Requests are numbered in the order they arrive. Each runs the handler in
\* its own thread or worker; a step is the code up to and including one
\* access to the files of the session (the upload directory, the state file).

Requests == 1..NumRequests

NoUpload == [present |-> FALSE, pdf |-> FALSE, name |-> 0, text |-> <<>>]

Pdf(n, t) == [present |-> TRUE, pdf |-> TRUE, name |-> n, text |-> t]

\* an attachment whose name does not end in .pdf
NotPdf == [present |-> TRUE, pdf |-> FALSE, name |-> 0, text |-> <<>>]

\* the attachments and the raw messages the model's requests carry
UploadSamples == {NoUpload, Pdf(1, <<>>), Pdf(1, <<"a">>), Pdf(2, <<"b">>), NotPdf}

MessageSamples == {<<>>, <<" ">>, <<"a">>}

\* the content of a history entry: a user's message or a reply
UserContent(m) == [kind |-> "message", text |-> m, rag |-> <<>>]

Extractive(found) == [kind |-> "extractive", text |-> <<>>, rag |-> found]

NoMatchReply == [kind |-> "No encontre coincidencias en tus PDFs.", text |-> <<>>, rag |-> <<>>]

NoPdfsReply == [kind |-> "No hay PDFs en tu sesion.", text |-> <<>>, rag |-> <<>>]

\* what call_openai can lead to: the model's text, or nothing usable
LlmReplies ==
    { [kind |-> "llm answer", text |-> <<>>, rag |-> <<>>],
      [kind |-> "No pude generar respuesta.", text |-> <<>>, rag |-> <<>>] }

NoReply == [kind |-> "none", text |-> <<>>, rag |-> <<>>]

Entry(role, content) == [role |-> role, content |-> content]

\* load_session_state(...).get("history", []): the stored list, or [] when
\* the state file does not exist
load_history(st) == IF st.exists THEN st.history ELSE <<>>

\* save_session_state with state["history"] = history
save_history(h) == [exists |-> TRUE, history |-> h]

\* a variant that searches an index kept from the first search of the session
ses_dir_cached(r) ==
    IF \E o \in Requests : o # r /\ pc[o] \in {"reply", "done"} /\ status[o] # 415 /\ status[o] # 400
    THEN docs_at_search[CHOOSE o \in Requests :
                            o # r /\ pc[o] \in {"reply", "done"} /\ status[o] # 415 /\ status[o] # 400]
    ELSE session_dir

\* line 238: the directory search_best_chunks reads is the session's, as it is
\* at the time of the call
ses_dir(r) == session_dir

InitChat ==
    /\ use_openai \in BOOLEAN
    /\ session_dir = <<>>
    /\ store = [exists |-> FALSE, history |-> <<>>]
    /\ pc = [r \in Requests |-> "idle"]
    /\ message = [r \in Requests |-> <<>>]
    /\ upload = [r \in Requests |-> NoUpload]
    /\ history = [r \in Requests |-> <<>>]
    /\ rag = [r \in Requests |-> <<>>]
    /\ reply = [r \in Requests |-> NoReply]
    /\ status = [r \in Requests |-> 0]
    /\ docs_at_search = [r \in Requests |-> <<>>]
    /\ ChunkIdle /\ SearchIdle

\* lines 206-228: the request is read; with neither message nor attachment it
\* ends with 400; an attachment that is not a PDF ends it with 415; a PDF is
\* saved under its name, over any file of that name
Receive(r) ==
    /\ pc[r] = "idle"
    /\ r > 1 => pc[r - 1] # "idle"
    /\ \E raw \in MessageSamples, up \in UploadSamples :
         /\ message' = [message EXCEPT ![r] = strip(raw)]
         /\ upload' = [upload EXCEPT ![r] = up]
         /\ IF strip(raw) = <<>> /\ ~up.present
            THEN /\ status' = [status EXCEPT ![r] = 400]
                 /\ pc' = [pc EXCEPT ![r] = "done"]
                 /\ UNCHANGED session_dir
            ELSE IF up.present /\ ~up.pdf
            THEN /\ status' = [status EXCEPT ![r] = 415]
                 /\ pc' = [pc EXCEPT ![r] = "done"]
                 /\ UNCHANGED session_dir
            ELSE /\ session_dir' =
                       IF up.present
                       THEN [n \in DOMAIN session_dir \cup {up.name} |->
                                IF n = up.name THEN up.text ELSE session_dir[n]]
                       ELSE session_dir
                 /\ pc' = [pc EXCEPT ![r] = "load"]
                 /\ UNCHANGED status
    /\ UNCHANGED <<use_openai, store, history, rag, reply, docs_at_search>>
    /\ UNCHANGED <<chunk_vars, search_vars>>

\* lines 231-235: the stored history is loaded and the message appended to it
Load(r) ==
    /\ pc[r] = "load"
    /\ history' = [history EXCEPT ![r] =
                      IF message[r] # <<>>
                      THEN Append(load_history(store), Entry("user", UserContent(message[r])))
                      ELSE load_history(store)]
    /\ pc' = [pc EXCEPT ![r] = "search"]
    /\ UNCHANGED <<use_openai, store, message, upload, rag, reply, status, docs_at_search>>
    /\ UNCHANGED <<session_dir, chunk_vars, search_vars>>

\* line 238: the search; docs_at_search records the documents the session
\* held at that time
Search(r) ==
    /\ pc[r] = "search"
    /\ rag' = [rag EXCEPT ![r] = search_best_chunks(ses_dir(r), message[r], ChatK)]
    /\ docs_at_search' = [docs_at_search EXCEPT ![r] = session_dir]
    /\ pc' = [pc EXCEPT ![r] = "reply"]
    /\ UNCHANGED <<use_openai, store, message, upload, history, reply, status>>
    /\ UNCHANGED <<session_dir, chunk_vars, search_vars>>

\* lines 241-266: the reply (from the model, or from the matches, or one of
\* the two no-result messages), appended to the history, which is saved
Reply(r) ==
    /\ pc[r] = "reply"
    /\ \E rep \in (IF use_openai THEN LlmReplies
                   ELSE IF rag[r] # <<>> THEN {Extractive(rag[r])}
                   ELSE IF DOMAIN session_dir # {} THEN {NoMatchReply}
                   ELSE {NoPdfsReply}) :
         /\ reply' = [reply EXCEPT ![r] = rep]
         /\ history' = [history EXCEPT ![r] = Append(history[r], Entry("assistant", rep))]
         /\ store' = save_history(Append(history[r], Entry("assistant", rep)))
    /\ status' = [status EXCEPT ![r] = 200]
    /\ pc' = [pc EXCEPT ![r] = "done"]
    /\ UNCHANGED <<use_openai, message, upload, rag, docs_at_search>>
    /\ UNCHANGED <<session_dir, chunk_vars, search_vars>>

NextChat == \E r \in Requests : Receive(r) \/ Load(r) \/ Search(r) \/ Reply(r)

SpecChat == InitChat /\ [][NextChat]_vars

----------------------------------------------------------------------------
(* Claims about the chat handler, under SpecChat *)

\* the request searched (it was not ended by a 400 or a 415)
Searched(r) == pc[r] \in {"reply", "done"} /\ status[r] \in {0, 200}

Answered(r) == pc[r] = "done" /\ status[r] = 200

NoUnits(r) == build_index_for_session(docs_at_search[r]) = <<>>

NoTerms(r) == tokenize(message[r]) = <<>>

\* the three ways a search ends without results
IsEmptyCorpus(r) == Answered(r) /\ NoUnits(r) /\ ~NoTerms(r)

IsEmptyQuery(r) == Answered(r) /\ ~NoUnits(r) /\ NoTerms(r)

IsNoMatch(r) == Answered(r) /\ ~NoUnits(r) /\ ~NoTerms(r) /\ rag[r] = <<>>

\* C8, for a session that holds documents, none with extractable text: the
\* reply to a search on its corpus, which has no units, differs from the reply
\* to a search that matched none of a corpus's units and from the reply to a
\* query without terms (stated for the replies the handler itself writes).
C8_EmptyCorpusDistinguishable ==
    ~use_openai =>
        \A r1, r2 \in Requests :
            (/\ IsEmptyCorpus(r1) /\ DOMAIN docs_at_search[r1] # {}
             /\ (IsNoMatch(r2) \/ IsEmptyQuery(r2)))
                => reply[r1] # reply[r2]

\* C9: the result of a query is that of a search over the documents the
\* session holds at the time of the query: it depends on those documents and
\* the query alone, and a document the same request uploaded is among them.
C9_FreshCorpus ==
    /\ \A r \in Requests :
         Searched(r) =>
           /\ rag[r] = search_best_chunks(docs_at_search[r], message[r], ChatK)
           /\ upload[r].present => upload[r].name \in DOMAIN docs_at_search[r]
    /\ \A r1, r2 \in Requests :
         (/\ Searched(r1) /\ Searched(r2)
          /\ docs_at_search[r1] = docs_at_search[r2]
          /\ message[r1] = message[r2])
            => rag[r1] = rag[r2]

\* a query found the document uploaded after an earlier query of the session
\* had found nothing
C9_Witness ==
    \E r1, r2 \in Requests :
        /\ r1 # r2
        /\ Answered(r1) /\ Answered(r2)
        /\ message[r1] = message[r2]
        /\ rag[r1] = <<>>
        /\ rag[r2] # <<>>
        /\ upload[r2].present
        /\ rag[r2][1][2] = upload[r2].name

AllDone == \A r \in Requests : pc[r] = "done"

\* the number of entries of h equal to e
Count(h, e) == Cardinality({i \in 1..Len(h) : h[i] = e})

\* the requests that carried a message and were answered
WithMessage == {r \in Requests : status[r] = 200 /\ message[r] # <<>>}

\* C10: once every request has completed, the stored history holds the
\* message and the reply of every request that carried a message: each such
\* entry is there as many times as requests wrote it.
C10_NoLostHistory ==
    AllDone =>
        \A r \in WithMessage :
            /\ Count(store.history, Entry("user", UserContent(message[r])))
                 >= Cardinality({o \in WithMessage : message[o] = message[r]})
            /\ Count(store.history, Entry("assistant", reply[r]))
                 >= Cardinality({o \in WithMessage : reply[o] = reply[r]})

====
